---------------------------- MODULE Spec2Model ----------------------------
(***************************************************************************)
(* Model of table_processor.py: the image preprocessing transform          *)
(* (preprocess_image), the reconstruction of a dense table from the OCR    *)
(* cell list (process_table_data), and the batch loop of main() with its   *)
(* merge (pd.concat) of the per-file tables.                                *)
(***************************************************************************)
EXTENDS Integers, Sequences, FiniteSets, TLC

VARIABLES
    \* ---- preprocess_image ----
    n_pc,        \* "call" before preprocess_image runs, "ret" after it returned
    n_img,       \* the image handed to preprocess_image
    n_mode,      \* its mode argument: "default" or "enhanced"
    n_bbox,      \* what diff.getbbox() answers for this image (None or the box's size)
    n_fail,      \* the library call that raises for this image ("none": no call raises)
    n_ret,       \* what preprocess_image returned
    \* ---- process_table_data ----
    t_pc,        \* "call" / "ret"
    ocr_data,    \* the parsed OCR response
    t_mode,      \* processing_mode: "raw" or "enhanced"
    t_ret,       \* what process_table_data returned
    \* ---- main ----
    pc,          \* position of main() in the recognition run
    uploaded_files,   \* sequence of file names
    processing_mode,  \* "raw" or "enhanced"
    i,           \* loop index of the for loop (1-based)
    cur,         \* the input of the file being processed (what the environment answers)
    df,          \* result of process_single_image for the current file
    all_data,    \* the accumulator list of tagged tables
    final_df,    \* the merged table
    exported,    \* the sheet written by to_excel: header row and data rows
    msgs,        \* st.success / st.error calls, in order
    produced,    \* history: per attempted file, what process_single_image gave
    merges       \* history: how many times pd.concat ran

vars == <<n_pc, n_img, n_mode, n_bbox, n_fail, n_ret,
          t_pc, ocr_data, t_mode, t_ret,
          pc, uploaded_files, processing_mode, i, cur, df, all_data, final_df,
          exported, msgs, produced, merges>>

n_vars == <<n_pc, n_img, n_mode, n_bbox, n_fail, n_ret>>
t_vars == <<t_pc, ocr_data, t_mode, t_ret>>
m_vars == <<pc, uploaded_files, processing_mode, i, cur, df, all_data, final_df,
            exported, msgs, produced, merges>>

\* Python's None where an image box or a list is expected
None == <<>>

Max2(a, b) == IF a >= b THEN a ELSE b
Min2(a, b) == IF a <= b THEN a ELSE b
Abs(a) == IF a >= 0 THEN a ELSE -a

(***************************************************************************)
(* preprocess_image                                                        *)
(***************************************************************************)

\* bound on the image dimensions drawn
MaxDim == 5000
\* img.thumbnail((2000, 2000)) and the test max(img.size) > 2000
MaxSize == 2000
\* ImageOps.expand(img, border=20, ...)
Border == 20

\* floor and ceiling of a / b for a >= 0, b > 0
FloorDiv(a, b) == a \div b
CeilDiv(a, b) == IF a % b = 0 THEN a \div b ELSE (a \div b) + 1

\* Image.thumbnail((x, y)) of PIL: the size that preserves the aspect ratio.
\* round_aspect picks, of floor and ceil, the one whose ratio is closest to the
\* image's (floor on a tie), and never less than 1.
thumbnail_size(w, h, x, y) ==
    IF x >= w /\ y >= h THEN <<w, h>>
    ELSE IF x * h >= w * y
         THEN \* x / y >= aspect: x = round_aspect(y * aspect), key |aspect - n / y|
              LET fl == FloorDiv(y * w, h)
                  ce == CeilDiv(y * w, h)
                  pick == IF Abs(y * w - fl * h) <= Abs(y * w - ce * h) THEN fl ELSE ce
              IN  <<Max2(pick, 1), y>>
         ELSE \* y = round_aspect(x / aspect), key 0 if n == 0 else |aspect - x / n|
              LET fl == FloorDiv(x * h, w)
                  ce == CeilDiv(x * h, w)
                  pick == IF fl = 0 THEN 0
                          ELSE IF Abs(w * fl - x * h) * ce <= Abs(w * ce - x * h) * fl
                               THEN fl ELSE ce
              IN  <<x, Max2(pick, 1)>>

\* img.convert('RGB')
convert(img) == [img EXCEPT !.mode = "RGB"]
\* img.crop(bbox)
crop(img, bbox) == [img EXCEPT !.size = bbox]
\* ImageOps.expand(img, border=20, fill='white')
expand(img) == [img EXCEPT !.size = <<img.size[1] + 2 * Border, img.size[2] + 2 * Border>>]
\* img.thumbnail((2000, 2000))
thumbnail(img) == [img EXCEPT !.size = thumbnail_size(img.size[1], img.size[2], MaxSize, MaxSize)]

\* The steps of the try block thread the local variable img; a step that raises
\* leaves img as the steps before it bound it, and the except clause returns it.
Raised(s) == [img |-> s.img, raised |-> TRUE]

StepConvert(s, fail) ==
    IF s.raised \/ s.img.mode = "RGB" THEN s
    ELSE IF fail = "convert" THEN Raised(s)
    ELSE [s EXCEPT !.img = convert(s.img)]

StepCrop(s, mode, bbox, fail) ==
    IF s.raised \/ mode # "enhanced" THEN s
    ELSE IF fail = "difference" THEN Raised(s)
    ELSE IF bbox = None THEN s
    ELSE IF fail = "crop" THEN Raised(s)
    ELSE [s EXCEPT !.img = crop(s.img, bbox)]

\* the border added whatever the mode
StepExpandAnyMode(s, mode, fail) ==
    IF s.raised THEN s
    ELSE IF fail = "expand" THEN Raised(s)
    ELSE [s EXCEPT !.img = expand(s.img)]

StepExpand(s, mode, fail) ==
    IF s.raised \/ mode # "enhanced" THEN s
    ELSE IF fail = "expand" THEN Raised(s)
    ELSE [s EXCEPT !.img = expand(s.img)]

StepThumbnail(s, fail) ==
    IF s.raised \/ ~(Max2(s.img.size[1], s.img.size[2]) > MaxSize) THEN s
    ELSE IF fail = "thumbnail" THEN Raised(s)
    ELSE [s EXCEPT !.img = thumbnail(s.img)]

\* the size cap applied before the crop and the border instead of after them
preprocess_image_cap_first(img, mode, bbox, fail) ==
    StepExpand(
        StepCrop(
            StepThumbnail(StepConvert([img |-> img, raised |-> FALSE], fail), fail),
            mode, bbox, fail),
        mode, fail)

\* preprocess_image(img, mode): returns the image and whether the except
\* clause ran (st.error was shown).
preprocess_image(img, mode, bbox, fail) ==
    StepThumbnail(
        StepExpand(
            StepCrop(
                StepConvert([img |-> img, raised |-> FALSE], fail),
                mode, bbox, fail),
            mode, fail),
        fail)

Dims == {1, 20, 500, 1960, 1961, 2000, 2001, MaxDim}
ImageModes == {"RGB", "L"}
Images == [mode : ImageModes, size : Dims \X Dims]
\* getbbox(): None for a uniformly white image, else a box inside the image
BBoxes(img) == {None} \cup {b \in Dims \X Dims : b[1] <= img.size[1] /\ b[2] <= img.size[2]}
FailPoints == {"none", "convert", "difference", "crop", "expand", "thumbnail"}

NoImage == [mode |-> "RGB", size |-> <<1, 1>>]
NoRet == [img |-> NoImage, raised |-> FALSE]

n_Idle ==
    /\ n_pc = "idle" /\ n_img = NoImage /\ n_mode = "default"
    /\ n_bbox = None /\ n_fail = "none" /\ n_ret = NoRet

PreprocessImage ==
    /\ n_pc = "call"
    /\ n_ret' = preprocess_image(n_img, n_mode, n_bbox, n_fail)
    /\ n_pc' = "ret"
    /\ UNCHANGED <<n_img, n_mode, n_bbox, n_fail>>
    /\ UNCHANGED t_vars
    /\ UNCHANGED m_vars

(***************************************************************************)
(* process_table_data                                                      *)
(***************************************************************************)

\* pandas' missing value, and Python's None where a DataFrame is expected
NaN == "<NaN>"
NoneDF == [none |-> TRUE]

\* d.get(k, default) and d.get(k) (None when absent) of a dict
Get(d, k, default) == IF k \in DOMAIN d THEN d[k] ELSE default
Has(d, k) == k \in DOMAIN d

RECURSIVE SeqMax(_)
SeqMax(s) == IF Len(s) = 1 THEN s[1] ELSE Max2(s[1], SeqMax(Tail(s)))

\* line 74 / 75: max(cell["RowTl"] + cell.get("RowSpan", 1) for cell in cells);
\* cell["RowTl"] raises KeyError when the key is absent
RowEnd(cell) == cell["RowTl"] + Get(cell, "RowSpan", 1)
ColEnd(cell) == cell["ColTl"] + Get(cell, "ColSpan", 1)
max_row(cells) == SeqMax([k \in 1..Len(cells) |-> RowEnd(cells[k])])
max_col(cells) == SeqMax([k \in 1..Len(cells) |-> ColEnd(cells[k])])
SizeRaises(cells) == \E k \in 1..Len(cells) : ~Has(cells[k], "RowTl") \/ ~Has(cells[k], "ColTl")

\* lines 78: the grid of empty strings (row r, column c of the code are r+1, c+1 here)
EmptyGrid(nr, nc) == [r \in 1..nr |-> [c \in 1..nc |-> ""]]

\* a cell that never overwrites a position already holding text
WriteCellKeepFirst(grid, cell, nr, nc) ==
    LET rows == Get(cell, "RowTl", 0) .. (Min2(Get(cell, "RowTl", 0) + Get(cell, "RowSpan", 1), nr) - 1)
        cols == Get(cell, "ColTl", 0) .. (Min2(Get(cell, "ColTl", 0) + Get(cell, "ColSpan", 1), nc) - 1)
    IN  [r \in 1..nr |-> [c \in 1..nc |->
            IF (r - 1) \in rows /\ (c - 1) \in cols /\ grid[r][c] = ""
            THEN Get(cell, "Text", "") ELSE grid[r][c]]]

\* lines 82-91: one cell written over its span, clipped to the grid
WriteCell(grid, cell, nr, nc) ==
    LET row_start == Get(cell, "RowTl", 0)
        col_start == Get(cell, "ColTl", 0)
        row_span == Get(cell, "RowSpan", 1)
        col_span == Get(cell, "ColSpan", 1)
        text == Get(cell, "Text", "")
        rows == row_start .. (Min2(row_start + row_span, nr) - 1)
        cols == col_start .. (Min2(col_start + col_span, nc) - 1)
    IN  [r \in 1..nr |-> [c \in 1..nc |->
            IF (r - 1) \in rows /\ (c - 1) \in cols THEN text ELSE grid[r][c]]]

\* lines 81-91: the cells in the order received
RECURSIVE FillGrid(_, _, _, _)
FillGrid(grid, cells, nr, nc) ==
    IF cells = <<>> THEN grid
    ELSE FillGrid(WriteCell(grid, Head(cells), nr, nc), Tail(cells), nr, nc)

\* pd.DataFrame(grid): positional column labels 0 .. n-1
DataFrame(grid) ==
    [columns |-> [c \in 1..(IF grid = <<>> THEN 0 ELSE Len(grid[1])) |-> ToString(c - 1)],
     data |-> grid]

isna(v) == v = NaN

\* df.dropna(how='all'): rows whose every value is missing are dropped
dropna_rows(d) ==
    LET keep(row) == ~(\A c \in 1..Len(row) : isna(row[c]))
    IN  [d EXCEPT !.data = SelectSeq(d.data, keep)]

RECURSIVE Pick(_, _, _)
\* the elements of s at the positions in keep, in order, from position k on
Pick(s, keep, k) ==
    IF k > Len(s) THEN <<>>
    ELSE (IF k \in keep THEN <<s[k]>> ELSE <<>>) \o Pick(s, keep, k + 1)

\* df.dropna(axis=1, how='all'): columns whose every value is missing are dropped
dropna_cols(d) ==
    LET keep == {c \in 1..Len(d.columns) : \E r \in 1..Len(d.data) : ~isna(d.data[r][c])}
    IN  [columns |-> Pick(d.columns, keep, 1),
         data |-> [r \in 1..Len(d.data) |-> Pick(d.data[r], keep, 1)]]

\* lines 73-102: the table of one detection that has cells
build_table(cells, mode) ==
    LET nr == max_row(cells)
        nc == max_col(cells)
        grid == FillGrid(EmptyGrid(nr, nc), cells, nr, nc)
        d == DataFrame(grid)
    IN  IF mode = "enhanced" THEN dropna_cols(dropna_rows(d)) ELSE d

\* table.get("Cells") is falsy: no key, or an empty list
NoCells(table) == Get(table, "Cells", None) = None

\* lines 68-102: the list tables; a detection without cells is skipped
RECURSIVE build_tables(_, _)
build_tables(dets, mode) ==
    IF dets = <<>> THEN <<>>
    ELSE (IF NoCells(Head(dets)) THEN <<>> ELSE <<build_table(Head(dets).Cells, mode)>>)
         \o build_tables(Tail(dets), mode)

\* a detection of the list raises inside the loop (KeyError), which the
\* except clause of process_table_data turns into st.error and None
LoopRaises(dets) == \E k \in 1..Len(dets) : ~NoCells(dets[k]) /\ SizeRaises(dets[k].Cells)

\* the last table instead of the first
last_table(tables) == IF tables # <<>> THEN tables[Len(tables)] ELSE NoneDF

\* tables[0] if tables else None
first_table(tables) == IF tables # <<>> THEN tables[1] ELSE NoneDF

\* process_table_data(ocr_data, processing_mode): the value returned and
\* whether the except clause ran (st.error was shown)
process_table_data(data, mode) ==
    IF Get(data, "TableDetections", None) = None
    THEN [ret |-> NoneDF, raised |-> FALSE]
    ELSE IF LoopRaises(data.TableDetections)
    THEN [ret |-> NoneDF, raised |-> TRUE]
    ELSE [ret |-> first_table(build_tables(data.TableDetections, mode)), raised |-> FALSE]

\* ---- the responses drawn ----
\* bound on the number of cells of a detection
MaxCells == 2
\* bound on the grid extent: RowTl + RowSpan and ColTl + ColSpan of a cell drawn
MaxExtent == 2
\* bound on the number of detections of a response
MaxDets == 2

SeqsUpTo(S, n) == UNION {[1..k -> S] : k \in 0..n}

Texts == {"", "a"}
\* RowSpan / ColSpan are optional (default 1): a cell drawn either omits the
\* key or carries a span of 2 or more
Spans(start) == {0} \cup {sp \in 2..MaxExtent : start + sp <= MaxExtent}
Cell(r, rs, c, cs, t) ==
    ("RowTl" :> r) @@ ("ColTl" :> c) @@ ("Text" :> t)
    @@ (IF rs = 0 THEN <<>> ELSE ("RowSpan" :> rs))
    @@ (IF cs = 0 THEN <<>> ELSE ("ColSpan" :> cs))
Cells ==
    {Cell(r, rs, c, cs, t) : <<r, rs, c, cs, t>> \in
        {q \in (0..(MaxExtent - 1)) \X (0..MaxExtent) \X (0..(MaxExtent - 1)) \X (0..MaxExtent) \X Texts :
            q[2] \in Spans(q[1]) /\ q[4] \in Spans(q[3])}}

\* a cell of a malformed response: no RowTl
BadCell == ("ColTl" :> 0) @@ ("Text" :> "x")

\* detections of the responses with several detections
SampleDets ==
    { [Cells |-> <<>>],
      [Type |-> 0],
      [Cells |-> <<Cell(0, 0, 0, 0, "a")>>],
      [Cells |-> <<Cell(0, 0, 0, 0, "b"), Cell(0, 0, 1, 0, "")>>],
      [Cells |-> <<BadCell>>] }

Responses ==
    { [RequestId |-> "r"] }
    \cup { [TableDetections |-> ds] : ds \in SeqsUpTo(SampleDets, MaxDets) }
    \cup { [TableDetections |-> << [Cells |-> cs] >>] : cs \in SeqsUpTo(Cells, MaxCells) }

ProcModes == {"raw", "enhanced"}

NoData == [RequestId |-> "r"]
NoResult == [ret |-> NoneDF, raised |-> FALSE]

t_Idle == t_pc = "idle" /\ ocr_data = NoData /\ t_mode = "raw" /\ t_ret = NoResult

ProcessTableData ==
    /\ t_pc = "call"
    /\ t_ret' = process_table_data(ocr_data, t_mode)
    /\ t_pc' = "ret"
    /\ UNCHANGED <<ocr_data, t_mode>>
    /\ UNCHANGED n_vars
    /\ UNCHANGED m_vars

(***************************************************************************)
(* main                                                                    *)
(***************************************************************************)

\* bound on the number of uploaded files
MaxFiles == 3
\* len(img_base64) < 100 raises ValueError
MinBase64Len == 100

\* the label of the provenance column (line 187)
SourceCol == "_source_file"

Names == {"a.png", "b.png"}

\* What the environment answers for one file: whether Image.open succeeds,
\* the decoded image, the answer of getbbox, the library call that raises in
\* preprocess_image, the length of the base64 payload, whether the OCR call
\* returns, and its response.
SampleImage == [mode |-> "L", size |-> <<500, 500>>]
TwoRows == [TableDetections |-> <<[Cells |-> <<Cell(0, 0, 0, 0, "a"), Cell(1, 0, 0, 0, "b")>>]>>]
TwoCols == [TableDetections |-> <<[Cells |-> <<Cell(0, 0, 0, 2, "c")>>]>>]
Malformed == [TableDetections |-> <<[Cells |-> <<BadCell>>]>>]
Nothing == [TableDetections |-> <<>>]
GoodInput(resp) ==
    [decode |-> TRUE, img |-> SampleImage, bbox |-> None, fail |-> "none",
     b64len |-> MinBase64Len, call_ok |-> TRUE, resp |-> resp]
FileInputs ==
    { [GoodInput(Nothing) EXCEPT !.decode = FALSE],
      [GoodInput(Nothing) EXCEPT !.b64len = MinBase64Len - 1],
      [GoodInput(Nothing) EXCEPT !.call_ok = FALSE],
      [GoodInput(TwoRows) EXCEPT !.fail = "convert"] }
    \cup { GoodInput(resp) : resp \in {Nothing, TwoRows, TwoCols, Malformed} }

\* a message shown: its level, the function that shows it, and the loop
\* iteration (file position) during which it is shown (0: after the loop)
Msg(level, from, file) == [level |-> level, from |-> from, file |-> file]

\* process_single_image(img, processing_mode): the value returned and the
\* functions whose except clause showed an error, in order
process_single_image(inp, mode) ==
    LET pre == preprocess_image(inp.img, IF mode = "enhanced" THEN "enhanced" ELSE "default",
                                inp.bbox, inp.fail)
        m1 == IF pre.raised THEN <<"preprocess_image">> ELSE <<>>
        tab == process_table_data(inp.resp, mode)
    IN  IF inp.b64len < MinBase64Len \/ ~inp.call_ok
        THEN [ret |-> NoneDF, errors |-> m1 \o <<"process_single_image">>]
        ELSE [ret |-> tab.ret,
              errors |-> m1 \o (IF tab.raised THEN <<"process_table_data">> ELSE <<>>)]

\* df["_source_file"] = file.name: a new last column holding the name in every row
tag(d, name) ==
    [columns |-> Append(d.columns, SourceCol),
     data |-> [r \in 1..Len(d.data) |-> Append(d.data[r], name)]]

\* all_data.append(df), with the list that puts the new table first as its variant
list_prepend(l, x) == <<x>> \o l
list_append(l, x) == Append(l, x)

InSeq(s, x) == \E k \in 1..Len(s) : s[k] = x
IndexOf(s, x) == CHOOSE k \in 1..Len(s) : s[k] = x

\* the columns of an outer-join concat: the union of the frames' labels in
\* order of first appearance
RECURSIVE union_columns(_, _)
union_columns(cols, frames) ==
    IF frames = <<>> THEN cols
    ELSE union_columns(cols \o SelectSeq(Head(frames).columns, LAMBDA c : ~InSeq(cols, c)),
                       Tail(frames))

\* a frame's rows laid out under the merged columns, NaN where it has no such column
reindex(frame, cols) ==
    [r \in 1..Len(frame.data) |-> [c \in 1..Len(cols) |->
        IF InSeq(frame.columns, cols[c])
        THEN frame.data[r][IndexOf(frame.columns, cols[c])] ELSE NaN]]

RECURSIVE concat_rows(_, _)
concat_rows(frames, cols) ==
    IF frames = <<>> THEN <<>>
    ELSE reindex(Head(frames), cols) \o concat_rows(Tail(frames), cols)

\* pd.concat(all_data, ignore_index=True)
concat(frames) ==
    LET cols == union_columns(<<>>, frames)
    IN  [columns |-> cols, data |-> concat_rows(frames, cols)]

\* final_df.to_excel(writer, index=False): header row, then the data rows
to_excel(d) == [header |-> d.columns, rows |-> d.data]

RaisedDF == [raised |-> TRUE]
NoSheet == [none |-> TRUE]

m_Idle ==
    /\ pc = "idle" /\ uploaded_files = <<>> /\ processing_mode = "raw" /\ i = 0
    /\ cur = GoodInput(Nothing) /\ df = NoneDF /\ all_data = <<>> /\ final_df = NoneDF
    /\ exported = NoSheet /\ msgs = <<>> /\ produced = <<>> /\ merges = 0

\* lines 178-183, 190-191: Image.open(file) raises; the except clause of the
\* loop body shows the error and the loop goes on with the next file
OpenFailsAbort ==
    /\ pc = "loop" /\ i <= Len(uploaded_files)
    /\ \E inp \in FileInputs : ~inp.decode /\ cur' = inp
    /\ msgs' = Append(msgs, Msg("error", "main", i))
    /\ produced' = Append(produced, RaisedDF)
    /\ pc' = "merge"
    /\ UNCHANGED <<uploaded_files, processing_mode, i, df, all_data, final_df, exported, merges>>
    /\ UNCHANGED n_vars
    /\ UNCHANGED t_vars

OpenFails ==
    /\ pc = "loop" /\ i <= Len(uploaded_files)
    /\ \E inp \in FileInputs : ~inp.decode /\ cur' = inp
    /\ msgs' = Append(msgs, Msg("error", "main", i))
    /\ produced' = Append(produced, RaisedDF)
    /\ i' = i + 1
    /\ UNCHANGED <<pc, uploaded_files, processing_mode, df, all_data, final_df, exported, merges>>
    /\ UNCHANGED n_vars
    /\ UNCHANGED t_vars

\* lines 178-183: Image.open(file) succeeds
OpenFile ==
    /\ pc = "loop" /\ i <= Len(uploaded_files)
    /\ \E inp \in FileInputs : inp.decode /\ cur' = inp
    /\ pc' = "process"
    /\ UNCHANGED <<uploaded_files, processing_mode, i, df, all_data, final_df, exported,
                   msgs, produced, merges>>
    /\ UNCHANGED n_vars
    /\ UNCHANGED t_vars

\* line 184: df = process_single_image(img, processing_mode)
ProcessSingleImage ==
    /\ pc = "process"
    /\ LET res == process_single_image(cur, processing_mode)
       IN  /\ df' = res.ret
           /\ msgs' = msgs \o [k \in 1..Len(res.errors) |-> Msg("error", res.errors[k], i)]
    /\ pc' = "tag"
    /\ UNCHANGED <<uploaded_files, processing_mode, i, cur, all_data, final_df, exported,
                   produced, merges>>
    /\ UNCHANGED n_vars
    /\ UNCHANGED t_vars

\* lines 186-189: a table came back: tag it, append it, show the success
TagAndAppend ==
    /\ pc = "tag" /\ df # NoneDF
    /\ all_data' = list_append(all_data, tag(df, uploaded_files[i]))
    /\ msgs' = Append(msgs, Msg("success", "main", i))
    /\ produced' = Append(produced, df)
    /\ i' = i + 1
    /\ pc' = "loop"
    /\ UNCHANGED <<uploaded_files, processing_mode, cur, df, final_df, exported, merges>>
    /\ UNCHANGED n_vars
    /\ UNCHANGED t_vars

\* line 186: df is None: the loop body ends without showing anything
SkipNone ==
    /\ pc = "tag" /\ df = NoneDF
    /\ produced' = Append(produced, NoneDF)
    /\ i' = i + 1
    /\ pc' = "loop"
    /\ UNCHANGED <<uploaded_files, processing_mode, cur, df, all_data, final_df, exported,
                   msgs, merges>>
    /\ UNCHANGED n_vars
    /\ UNCHANGED t_vars

\* lines 193-194: the loop is exhausted
EndLoop ==
    /\ pc = "loop" /\ i > Len(uploaded_files)
    /\ pc' = "merge"
    /\ UNCHANGED <<uploaded_files, processing_mode, i, cur, df, all_data, final_df, exported,
                   msgs, produced, merges>>
    /\ UNCHANGED n_vars
    /\ UNCHANGED t_vars

\* lines 196-201: final_df = pd.concat(all_data, ignore_index=True)
Merge ==
    /\ pc = "merge" /\ all_data # <<>>
    /\ final_df' = concat(all_data)
    /\ merges' = merges + 1
    /\ pc' = "export"
    /\ UNCHANGED <<uploaded_files, processing_mode, i, cur, df, all_data, exported,
                   msgs, produced>>
    /\ UNCHANGED n_vars
    /\ UNCHANGED t_vars

\* lines 216-217: nothing was accumulated
NoValidData ==
    /\ pc = "merge" /\ all_data = <<>>
    /\ msgs' = Append(msgs, Msg("error", "main", 0))
    /\ pc' = "done"
    /\ UNCHANGED <<uploaded_files, processing_mode, i, cur, df, all_data, final_df, exported,
                   produced, merges>>
    /\ UNCHANGED n_vars
    /\ UNCHANGED t_vars

\* lines 204-213: the sheet offered for download
Export ==
    /\ pc = "export"
    /\ exported' = to_excel(final_df)
    /\ pc' = "done"
    /\ UNCHANGED <<uploaded_files, processing_mode, i, cur, df, all_data, final_df,
                   msgs, produced, merges>>
    /\ UNCHANGED n_vars
    /\ UNCHANGED t_vars

(***************************************************************************)
(* Specifications                                                          *)
(***************************************************************************)

\* main(): the button was pressed on a non-empty upload (lines 162, 173-176)
Init ==
    /\ pc = "loop"
    /\ uploaded_files \in SeqsUpTo(Names, MaxFiles) \ {<<>>}
    /\ processing_mode \in ProcModes
    /\ i = 1
    /\ cur = GoodInput(Nothing) /\ df = NoneDF /\ all_data = <<>> /\ final_df = NoneDF
    /\ exported = NoSheet /\ msgs = <<>> /\ produced = <<>> /\ merges = 0
    /\ n_Idle
    /\ t_Idle
Next ==
    \/ OpenFails
    \/ OpenFile
    \/ ProcessSingleImage
    \/ TagAndAppend
    \/ SkipNone
    \/ EndLoop
    \/ Merge
    \/ NoValidData
    \/ Export
Spec == Init /\ [][Next]_vars

\* preprocess_image applied to every image, mode, bounding box and failing call
InitNorm ==
    /\ n_pc = "call"
    /\ n_img \in Images
    /\ n_mode \in {"default", "enhanced"}
    /\ n_bbox \in BBoxes(n_img)
    /\ n_fail \in FailPoints
    /\ n_ret = NoRet
    /\ t_Idle
    /\ m_Idle
NextNorm == PreprocessImage
SpecNorm == InitNorm /\ [][NextNorm]_vars

\* process_table_data applied to every response and mode
InitTable ==
    /\ t_pc = "call"
    /\ ocr_data \in Responses
    /\ t_mode \in ProcModes
    /\ t_ret = NoResult
    /\ n_Idle
    /\ m_Idle
NextTable == ProcessTableData
SpecTable == InitTable /\ [][NextTable]_vars

(***************************************************************************)
(* Properties of preprocess_image (SpecNorm)                               *)
(***************************************************************************)

Returned == n_pc = "ret"
Width(img) == img.size[1]
Height(img) == img.size[2]

\* C6 (as claimed): preprocess_image is fail-open: whenever an internal step
\* raises, the image returned is the original input image, untouched by the
\* steps that ran before the failure.
C6_FailOpenReturnsOriginal ==
    (Returned /\ n_ret.raised) => n_ret.img = n_img

\* C7: when preprocess_image completes without an internal failure, neither
\* dimension of the returned image exceeds 2000, in default and in enhanced
\* mode; the cap comes after the crop and the 20-pixel border.
C7_SizeCap ==
    (Returned /\ ~n_ret.raised) =>
        (Width(n_ret.img) <= MaxSize /\ Height(n_ret.img) <= MaxSize)

\* C7 witness: enhanced mode, a cropped box within 2000 that the border pushes
\* above 2000, and the call returned without failure.
C7_Witness ==
    /\ Returned /\ ~n_ret.raised /\ n_mode = "enhanced" /\ n_bbox # None
    /\ n_bbox[1] <= MaxSize /\ n_bbox[2] <= MaxSize
    /\ n_bbox[1] + 2 * Border > MaxSize

\* C8 (as claimed): for an image whose larger dimension is within 2000,
\* preprocess_image leaves width and height unchanged, in either mode.
C8_SmallImageUnchangedAnyMode ==
    (Returned /\ ~n_ret.raised /\ Max2(Width(n_img), Height(n_img)) <= MaxSize) =>
        n_ret.img.size = n_img.size

\* C8 (amended): in default mode, for an image whose larger dimension is
\* within 2000, preprocess_image leaves width and height unchanged.
C8_SmallImageUnchangedDefault ==
    (Returned /\ n_mode = "default" /\ Max2(Width(n_img), Height(n_img)) <= MaxSize) =>
        n_ret.img.size = n_img.size

\* C8 witness: a 500 x 500 image went through default-mode preprocessing.
C8_Witness ==
    Returned /\ n_mode = "default" /\ n_img.size = <<500, 500>> /\ ~n_ret.raised

(***************************************************************************)
(* Properties of process_table_data (SpecTable)                            *)
(***************************************************************************)

TableReturned == t_pc = "ret"
Detections == Get(ocr_data, "TableDetections", None)
WithCells == {k \in 1..Len(Detections) : ~NoCells(Detections[k])}
FirstWithCells == CHOOSE k \in WithCells : \A j \in WithCells : k <= j
WellFormed == ~LoopRaises(Detections)

AllEmptyRow(d, r) == \A c \in 1..Len(d.data[r]) : d.data[r][c] = ""
AllEmptyCol(d, c) == \A r \in 1..Len(d.data) : d.data[r][c] = ""

\* C3 (as claimed): in enhanced mode the Table returned has no row whose every
\* cell is the empty string and no column whose every cell is the empty string.
C3_EnhancedDropsEmpty ==
    (TableReturned /\ t_mode = "enhanced" /\ t_ret.ret # NoneDF) =>
        /\ \A r \in 1..Len(t_ret.ret.data) : ~AllEmptyRow(t_ret.ret, r)
        /\ \A c \in 1..Len(t_ret.ret.columns) : ~AllEmptyCol(t_ret.ret, c)

SetMax(S) == CHOOSE m \in S : \A x \in S : x <= m
Covers(cell, r, c) ==
    /\ cell.RowTl <= r /\ r < cell.RowTl + Get(cell, "RowSpan", 1)
    /\ cell.ColTl <= c /\ c < cell.ColTl + Get(cell, "ColSpan", 1)
Covering(cells, r, c) == {k \in 1..Len(cells) : Covers(cells[k], r, c)}
RefRows(cells) == SetMax({cells[k].RowTl + Get(cells[k], "RowSpan", 1) : k \in 1..Len(cells)})
RefCols(cells) == SetMax({cells[k].ColTl + Get(cells[k], "ColSpan", 1) : k \in 1..Len(cells)})
RefGrid(cells) ==
    [r \in 1..RefRows(cells) |-> [c \in 1..RefCols(cells) |->
        IF Covering(cells, r - 1, c - 1) = {} THEN ""
        ELSE cells[SetMax(Covering(cells, r - 1, c - 1))].Text]]

\* C5: in raw mode, for a well-formed non-empty cell list, the Table has
\* exactly max(row_start+row_span) rows and max(col_start+col_span) columns
\* and each position holds the text of the last cell in input order covering
\* it, or the empty string when none covers it; no write fails.
C5_RawEqualsReferenceGrid ==
    (TableReturned /\ t_mode = "raw" /\ WithCells # {} /\ WellFormed) =>
        LET cells == Detections[FirstWithCells].Cells
        IN  /\ ~t_ret.raised
            /\ t_ret.ret.data = RefGrid(cells)
            /\ Len(t_ret.ret.data) = RefRows(cells)
            /\ Len(t_ret.ret.columns) = RefCols(cells)

\* C5 witness: a raw-mode Table in which one position is covered by two cells
\* of different text and another position is covered by none.
C5_Witness ==
    /\ TableReturned /\ t_mode = "raw" /\ WithCells # {} /\ WellFormed
    /\ LET cells == Detections[FirstWithCells].Cells
       IN  /\ \E r \in 0..(RefRows(cells) - 1), c \in 0..(RefCols(cells) - 1) :
                 \E j, k \in Covering(cells, r, c) : cells[j].Text # cells[k].Text
           /\ \E r \in 0..(RefRows(cells) - 1), c \in 0..(RefCols(cells) - 1) :
                 Covering(cells, r, c) = {}

(***************************************************************************)
(* Properties of main (Spec)                                               *)
(***************************************************************************)

AfterLoop == pc \in {"merge", "export", "done"}
Merged == pc \in {"export", "done"} /\ final_df # NoneDF
IsTable(d) == d # NoneDF /\ d # RaisedDF
Producers == {k \in 1..Len(produced) : IsTable(produced[k])}

\* the provenance value of row r of a merged frame
SourceOf(d, r) == d.data[r][IndexOf(d.columns, SourceCol)]
RowsFrom(d, n) == Cardinality({r \in 1..Len(d.data) : SourceOf(d, r) = n})
\* rows of the tables given by the files named n among the first k files
RECURSIVE RowsProduced(_, _)
RowsProduced(n, k) ==
    IF k = 0 THEN 0
    ELSE RowsProduced(n, k - 1)
         + (IF uploaded_files[k] = n /\ IsTable(produced[k]) THEN Len(produced[k].data) ELSE 0)

\* C1: whatever subset of the files fails, every file is attempted, and the
\* merged result holds rows from exactly the files that gave a non-null Table,
\* each row carrying its file's name in the provenance column.
C1_BatchIsolation ==
    /\ AfterLoop => Len(produced) = Len(uploaded_files)
    /\ Merged =>
          /\ \A r \in 1..Len(final_df.data) :
                SourceOf(final_df, r) \in {uploaded_files[k] : k \in Producers}
          /\ \A n \in Names : RowsFrom(final_df, n) = RowsProduced(n, Len(uploaded_files))
    /\ pc = "done" => (final_df = NoneDF <=> Producers = {})

\* C1 witness: three files, the second failed to decode, the first and the
\* third gave Tables, and the merged result exists.
C1_Witness ==
    /\ pc = "done" /\ Len(uploaded_files) = 3 /\ Len(produced) = 3
    /\ produced[2] = RaisedDF /\ IsTable(produced[1]) /\ IsTable(produced[3])
    /\ uploaded_files[1] # uploaded_files[3]
    /\ final_df # NoneDF

\* the success or failure indications shown for the file at position k; the
\* error of preprocess_image is no failure of the file
Outcomes(k) ==
    {j \in 1..Len(msgs) : msgs[j].file = k /\ msgs[j].from # "preprocess_image"}

\* C2 (as claimed): every file of the batch gets exactly one outcome
\* indication, success or failure; a file whose response holds no table is
\* shown as failed, never skipped silently.
C2_OneOutcomePerFile ==
    pc = "done" => \A k \in 1..Len(uploaded_files) : Cardinality(Outcomes(k)) = 1

RECURSIVE ColumnsOf(_)
ColumnsOf(frames) ==
    IF frames = <<>> THEN {}
    ELSE {Head(frames).columns[c] : c \in 1..Len(Head(frames).columns)} \cup ColumnsOf(Tail(frames))

\* C9 (as claimed): the exported sheet's columns are the union of the per-file
\* Tables' columns and the provenance column is the last one, also when the
\* Tables differ in their number of columns.
C9_SourceColumnLast ==
    (pc = "done" /\ exported # NoSheet) =>
        /\ {exported.header[c] : c \in 1..Len(exported.header)} = ColumnsOf(all_data)
        /\ exported.header[Len(exported.header)] = SourceCol

\* the tagged Tables of the first k files, in input order
RECURSIVE Tagged(_)
Tagged(k) ==
    IF k = 0 THEN <<>>
    ELSE Tagged(k - 1)
         \o (IF IsTable(produced[k]) THEN <<tag(produced[k], uploaded_files[k])>> ELSE <<>>)

\* the (frame, row) positions of a list of frames, frame by frame, row by row
RECURSIVE Positions(_, _)
Positions(frames, f) ==
    IF f > Len(frames) THEN <<>>
    ELSE [r \in 1..Len(frames[f].data) |-> <<f, r>>] \o Positions(frames, f + 1)

\* C10: files are processed one at a time in input order (file i is in work
\* only when the files before it are complete), the merge runs once and only
\* after every file was attempted, and the merged rows are grouped by file in
\* input order with each file's row order kept.
C10_SequentialOrder ==
    /\ pc \in {"loop", "process", "tag"} =>
          (Len(produced) = i - 1 /\ i <= Len(uploaded_files) + 1)
    /\ pc \in {"process", "tag"} => i <= Len(uploaded_files)
    /\ all_data = Tagged(Len(produced))
    /\ merges <= 1
    /\ (merges = 1 \/ final_df # NoneDF) => Len(produced) = Len(uploaded_files)
    /\ Merged =>
          LET pos == Positions(all_data, 1)
          IN  /\ Len(final_df.data) = Len(pos)
              /\ \A k \in 1..Len(pos) :
                    LET frame == all_data[pos[k][1]]
                    IN  \A c \in 1..Len(frame.columns) :
                          final_df.data[k][IndexOf(final_df.columns, frame.columns[c])]
                              = frame.data[pos[k][2]][c]

\* C10 witness: a failed file between two files that gave Tables, the first
\* Table of two rows, and the merge done.
C10_Witness ==
    /\ pc = "done" /\ Len(all_data) = 2 /\ Len(produced) = 3
    /\ ~IsTable(produced[2])
    /\ Len(all_data[1].data) = 2
    /\ all_data[1].data[1] # all_data[1].data[2]
    /\ merges = 1

=============================================================================
